---------------------------- MODULE Spec2Model ----------------------------
(***************************************************************************)
(* A model of the boids World of src/boids.js: the constructor, addBoid,   *)
(* getNeighbors and update, with update split at its two loops so that the *)
(* staging pass and the commit pass are visible as separate steps.         *)
(*                                                                         *)
(* Numbers.  JavaScript numbers are modelled in fixed point: a real value  *)
(* v is the integer v * Scale, and every arithmetic operation rounds its   *)
(* result to the nearest representable value, symmetrically in the sign    *)
(* (as IEEE-754 rounding is).  Angles are integers in units of 2*pi/TwoPi, *)
(* so Math.PI is TwoPi \div 2; Math.cos, Math.sin and Math.atan2 are the   *)
(* correctly rounded functions on that grid, computed from a sine table.   *)
(* A change of heading smaller than half a grid step (the noise alone, for *)
(* instance) is absorbed by that rounding, as a change below half an ulp   *)
(* is in the source; speeds and positions resolve the noise exactly.       *)
(*                                                                         *)
(* Identity.  Every boid record carries an id, unique in the array, that   *)
(* stands for the identity of the JavaScript object.                       *)
(***************************************************************************)
EXTENDS Integers, Sequences, FiniteSets

\* ------------------------------------------------------------------------
\* State
\* ------------------------------------------------------------------------
VARIABLES
    width,      \* this.width
    height,     \* this.height
    boids,      \* this.boids: a sequence of boid records
    pc,         \* "idle", or the loop of update() that is running
    idx,        \* the index of the boid the running loop visits next
    ticks,      \* the number of update() calls that have returned
    lastOp,     \* the operation that returned last
    pre,        \* this.boids as it was when the running/last update() began
    draws,      \* the draws of Math.random() of each iteration of the first loop
    moved,      \* the integrated, not yet wrapped position of each committed boid
    sep,        \* the separation influence computed in each iteration of the first loop
    options,    \* the argument of the last addBoid call
    query       \* the arguments and the result of the last getNeighbors call

vars == << width, height, boids, pc, idx, ticks, lastOp, pre, draws, moved, sep,
          options, query >>

\* ------------------------------------------------------------------------
\* Bounds of the model
\* ------------------------------------------------------------------------
MaxBoids == 2

MaxTicks == 2

\* ------------------------------------------------------------------------
\* Number representation
\* ------------------------------------------------------------------------
\* the fixed-point unit: 1.0 is Scale, and 0.01, the noise factor, is 1
Scale == 100

\* the number of grid angles of a full turn
TwoPi == 64

\* the unit of the sine table
TrigScale == 10000

Abs(v) == IF v < 0 THEN -v ELSE v

Min(a, b) == IF a < b THEN a ELSE b

Max(a, b) == IF a > b THEN a ELSE b

\* n / d rounded to the nearest integer, halves away from zero (d > 0):
\* the rounding of one floating-point operation, antisymmetric in n.
RoundDiv(n, d) ==
    IF n >= 0 THEN (2 * n + d) \div (2 * d)
              ELSE -((2 * (-n) + d) \div (2 * d))

\* JavaScript's %: the remainder takes the sign of the dividend (b > 0).
JsRem(a, b) == IF a >= 0 THEN a % b ELSE -((-a) % b)

\* sin(2*pi*k/TwoPi) * TrigScale for k = 0 .. TwoPi/4
SinTable ==
    << 0, 980, 1951, 2903, 3827, 4714, 5556, 6344, 7071,
       7730, 8315, 8819, 9239, 9569, 9808, 9952, 10000 >>

SinHi(k) ==
    LET m == k % TwoPi
        q == TwoPi \div 4
    IN  IF m <= q THEN SinTable[m + 1]
        ELSE IF m <= 2 * q THEN SinTable[2 * q - m + 1]
        ELSE IF m <= 3 * q THEN -SinTable[m - 2 * q + 1]
        ELSE -SinTable[4 * q - m + 1]

CosHi(k) == SinHi(k + TwoPi \div 4)

\* Math.sin and Math.cos, at the resolution of the model's numbers
Sin(k) == RoundDiv(SinHi(k) * Scale, TrigScale)

Cos(k) == RoundDiv(CosHi(k) * Scale, TrigScale)

\* Math.atan2(y, x): the grid angle in (-pi, pi] nearest to the direction of
\* (x, y), i.e. the one whose unit vector has the largest projection on it;
\* atan2(0, 0) is 0.  The nearest grid angle lies in the closed quadrant of
\* (x, y), where the projection has no other local maximum, so it is the
\* grid angle of that quadrant whose projection is not below that of its two
\* neighbours.  A direction exactly between two grid angles rounds to the
\* one of smaller magnitude.
Atan2(y, x) ==
    IF x = 0 /\ y = 0 THEN 0
    ELSE LET q == TwoPi \div 4
             Range == IF y >= 0
                      THEN (IF x >= 0 THEN 0 .. q ELSE q .. 2 * q)
                      ELSE (IF x >= 0 THEN (-q) .. 0
                                      ELSE ((1 - 2 * q) .. (-q)) \cup {2 * q})
             Dot(k) == x * CosHi(k) + y * SinHi(k)
             Best == {k \in Range : Dot(k) >= Dot(k - 1) /\ Dot(k) >= Dot(k + 1)}
         IN  CHOOSE k \in Best :
                 \A j \in Best : Abs(k) < Abs(j) \/ (Abs(k) = Abs(j) /\ k >= j)

\* ------------------------------------------------------------------------
\* Program constants
\* ------------------------------------------------------------------------
\* the neighbourhood radius update() passes to getNeighbors
NeighborRadius == 100

\* the bounds of the speed clamp, 0.5 and 2
MinSpeed == Scale \div 2

MaxSpeed == 2 * Scale

\* ------------------------------------------------------------------------
\* Pure helpers of the source
\* ------------------------------------------------------------------------
\* The boids of the array are referred to by their index: `boid === target'
\* is equality of indices, since every push creates a fresh object.

\* a filter without the identity test, which keeps the target itself
IsNeighborOrSelf(bs, i, t, radius) ==
    LET dx == Abs(bs[i].x - bs[t].x)
        dy == Abs(bs[i].y - bs[t].y)
    IN  dx * dx + dy * dy < radius * radius

\* a filter that keeps the boids at distance exactly radius
IsNeighborInclusive(bs, i, t, radius) ==
    /\ i # t
    /\ LET dx == Abs(bs[i].x - bs[t].x)
           dy == Abs(bs[i].y - bs[t].y)
       IN  dx * dx + dy * dy <= radius * radius

\* the predicate of the filter callback of getNeighbors
IsNeighbor(bs, i, t, radius) ==
    /\ i # t
    /\ LET dx == Abs(bs[i].x - bs[t].x)
           dy == Abs(bs[i].y - bs[t].y)
       IN  dx * dx + dy * dy < radius * radius

RECURSIVE FilterFrom(_, _, _, _)
FilterFrom(bs, i, t, radius) ==
    IF i > Len(bs) THEN << >>
    ELSE IF IsNeighbor(bs, i, t, radius)
         THEN << i >> \o FilterFrom(bs, i + 1, t, radius)
         ELSE FilterFrom(bs, i + 1, t, radius)

\* getNeighbors(target, radius): the indices of the neighbours, in array order
getNeighbors(bs, t, radius) == FilterFrom(bs, 1, t, radius)

\* the accumulation loops of the averaging helpers: the sum of a sequence
RECURSIVE Sum(_)
Sum(vs) == IF vs = << >> THEN 0 ELSE Head(vs) + Sum(Tail(vs))

averageAngle(bs, ns) ==
    LET x == Sum([k \in 1 .. Len(ns) |-> Cos(bs[ns[k]].angle)])
        y == Sum([k \in 1 .. Len(ns) |-> Sin(bs[ns[k]].angle)])
    IN  Atan2(y, x)

averagePosition(bs, ns) ==
    LET totalX == Sum([k \in 1 .. Len(ns) |-> bs[ns[k]].x])
        totalY == Sum([k \in 1 .. Len(ns) |-> bs[ns[k]].y])
    IN  [x |-> RoundDiv(totalX, Len(ns)), y |-> RoundDiv(totalY, Len(ns))]

averageSpeed(bs, ns) ==
    LET totalSpeed == Sum([k \in 1 .. Len(ns) |-> bs[ns[k]].speed])
    IN  RoundDiv(totalSpeed, Len(ns))

\* v * 0.01, v * 0.001 and v * 0.1: one rounded multiplication each
Hundredth(v) == RoundDiv(v, 100)

Thousandth(v) == RoundDiv(v, 1000)

Tenth(v) == RoundDiv(v, 10)

\* "same heading": cos and sin of the neighbours' average angle, times 0.01
Alignment(bs, ns) ==
    LET aAngle == averageAngle(bs, ns)
    IN  [x |-> Hundredth(Cos(aAngle)), y |-> Hundredth(Sin(aAngle))]

\* "stay together": the offset to the neighbours' average position, times 0.001
Cohesion(bs, b, ns) ==
    LET aPosition == averagePosition(bs, ns)
    IN  [x |-> Thousandth(aPosition.x - bs[b].x),
         y |-> Thousandth(aPosition.y - bs[b].y)]

\* distanceSquared / 100 + 1
SeparationDenominator(dx, dy) ==
    LET distanceSquared == RoundDiv(dx * dx + dy * dy, Scale)
    IN  RoundDiv(distanceSquared, 100) + Scale

\* a separation term that takes the offsets as getNeighbors does, unsigned
SeparationTermUnsigned(bs, b, n) ==
    LET dx == Abs(bs[b].x - bs[n].x)
        dy == Abs(bs[b].y - bs[n].y)
        den == SeparationDenominator(dx, dy)
    IN  [x |-> Hundredth(RoundDiv(dx * Scale, den)),
         y |-> Hundredth(RoundDiv(dy * Scale, den))]

\* "don't collide": what one neighbour n adds to the influence on boid b
SeparationTerm(bs, b, n) ==
    LET dx == bs[b].x - bs[n].x
        dy == bs[b].y - bs[n].y
        den == SeparationDenominator(dx, dy)
    IN  [x |-> Hundredth(RoundDiv(dx * Scale, den)),
         y |-> Hundredth(RoundDiv(dy * Scale, den))]

\* the separation loop over all neighbours
Separation(bs, b, ns) ==
    [x |-> Sum([k \in 1 .. Len(ns) |-> SeparationTerm(bs, b, ns[k]).x]),
     y |-> Sum([k \in 1 .. Len(ns) |-> SeparationTerm(bs, b, ns[k]).y])]

\* "same speed"
SpeedMatching(bs, b, ns) == Tenth(averageSpeed(bs, ns) - bs[b].speed)

\* (Math.random() * 2 - 1) * 0.01 for a draw r of Math.random()
Noise(r) == Hundredth(2 * r - Scale)

\* xInfluence, yInfluence and speedInfluence of boid b at the end of the
\* body of the first loop; d is the three draws of Math.random()
Influence(bs, b, d) ==
    LET neighbors == getNeighbors(bs, b, NeighborRadius * Scale)
        al == Alignment(bs, neighbors)
        co == Cohesion(bs, b, neighbors)
        se == Separation(bs, b, neighbors)
    IN  IF Len(neighbors) > 0
        THEN [x |-> al.x + co.x + se.x + Noise(d[1]),
              y |-> al.y + co.y + se.y + Noise(d[2]),
              speed |-> SpeedMatching(bs, b, neighbors) + Noise(d[3])]
        ELSE [x |-> Noise(d[1]), y |-> Noise(d[2]), speed |-> Noise(d[3])]

\* a clamp that lost its upper bound
ClampSpeedNoUpper(v) == Max(v, MinSpeed)

\* Math.min(Math.max(v, 0.5), 2)
ClampSpeed(v) == Min(Max(v, MinSpeed), MaxSpeed)

\* the wrap of the x coordinate
WrapX(x, w) ==
    LET x1 == IF x >= w THEN JsRem(x, w) ELSE x
    IN  IF x1 <= 0 THEN JsRem(x1, w) + w ELSE x1

\* the wrap of the y coordinate (the second correction takes y % width)
WrapY(y, w, h) ==
    LET y1 == IF y >= h THEN JsRem(y, h) ELSE y
    IN  IF y1 <= 0 THEN JsRem(y1, w) + h ELSE y1

\* the position of a boid after integration, before the wrap
Integrate(bd) ==
    [x |-> bd.x + RoundDiv(Cos(bd.newAngle) * bd.newSpeed, Scale),
     y |-> bd.y + RoundDiv(Sin(bd.newAngle) * bd.newSpeed, Scale)]

\* a commit that takes the boid out of the array and pushes it back at the end
CommitBoidReinsert(bs, b, w, h) ==
    LET p == Integrate(bs[b])
    IN  [k \in 1 .. Len(bs) |->
            IF k < b THEN bs[k]
            ELSE IF k < Len(bs) THEN bs[k + 1]
            ELSE [bs[b] EXCEPT !.angle = bs[b].newAngle,
                               !.speed = bs[b].newSpeed,
                               !.x = WrapX(p.x, w),
                               !.y = WrapY(p.y, w, h)]]

\* one iteration of the second loop of update: commit, integrate and wrap
CommitBoid(bs, b, w, h) ==
    LET p == Integrate(bs[b])
    IN  [bs EXCEPT ![b].angle = bs[b].newAngle,
                   ![b].speed = bs[b].newSpeed,
                   ![b].x = WrapX(p.x, w),
                   ![b].y = WrapY(p.y, w, h)]

\* a staging that is skipped for a boid without neighbours
StageBoidOnlyWithNeighbors(bs, b, d) ==
    LET inf == Influence(bs, b, d)
    IN  IF getNeighbors(bs, b, NeighborRadius * Scale) = << >> THEN bs
        ELSE [bs EXCEPT
           ![b].newAngle = Atan2(Sin(bs[b].angle) + inf.y, Cos(bs[b].angle) + inf.x),
           ![b].newSpeed = ClampSpeed(bs[b].speed + inf.speed)]

\* a single-pass update: the boid is committed and moved as soon as it is staged
StageBoidSinglePass(bs, b, d) ==
    LET inf == Influence(bs, b, d)
        staged == [bs EXCEPT
           ![b].newAngle = Atan2(Sin(bs[b].angle) + inf.y, Cos(bs[b].angle) + inf.x),
           ![b].newSpeed = ClampSpeed(bs[b].speed + inf.speed)]
    IN  CommitBoid(staged, b, width, height)

\* one iteration of the first loop of update: stage newAngle and newSpeed
StageBoid(bs, b, d) ==
    LET inf == Influence(bs, b, d)
    IN  [bs EXCEPT
           ![b].newAngle = Atan2(Sin(bs[b].angle) + inf.y, Cos(bs[b].angle) + inf.x),
           ![b].newSpeed = ClampSpeed(bs[b].speed + inf.speed)]

\* ------------------------------------------------------------------------
\* Inputs
\* ------------------------------------------------------------------------
\* the plane sizes the World is constructed with: << width, height >>
Worlds == { << 10 * Scale, 10 * Scale >>, << 250 * Scale, 150 * Scale >> }

\* the four draws of one addBoid() call (x, y, angle, speed)
BoidDraws ==
    { << 0, 0, Scale \div 8, 0 >>,
      << Scale - 1, Scale \div 2, Scale \div 2, Scale - 1 >> }

\* the three draws of one iteration of the first loop (x, y, speed noise)
NoiseDraws ==
    { << Scale \div 2, Scale \div 2, Scale \div 2 >>,
      << 0, Scale - 1, 0 >>,
      << Scale - 1, 0, Scale - 1 >> }

\* the options objects addBoid is called with; an omitted key is undefined
BoidOptions ==
    { << >>,
      [x |-> 1 * Scale, y |-> 5 * Scale, angle |-> TwoPi \div 2, speed |-> 1 * Scale],
      [x |-> 9 * Scale + 90, y |-> 5 * Scale, angle |-> 0, speed |-> 1 * Scale],
      [x |-> 9 * Scale, y |-> 5 * Scale, angle |-> 0, speed |-> 1 * Scale],
      [speed |-> 3 * Scale],
      [x |-> 1 * Scale, y |-> 5 * Scale, angle |-> TwoPi \div 4, speed |-> 0] }

\* the radii getNeighbors is queried with by a caller
QueryRadii == {0, 8 * Scale, NeighborRadius * Scale}

\* ------------------------------------------------------------------------
\* Operations
\* ------------------------------------------------------------------------
NoQuery == [target |-> 0, radius |-> 0, result |-> << >>]

\* a boid whose staging fields start as copies of its angle and speed
NewBoidStagedFromCurrent(w, h, o, d, id) ==
    LET angle == IF "angle" \in DOMAIN o THEN o.angle ELSE RoundDiv(d[3] * TwoPi, Scale)
        speed == IF "speed" \in DOMAIN o THEN o.speed ELSE d[4] + Scale \div 2
    IN  [id |-> id,
         x |-> IF "x" \in DOMAIN o THEN o.x ELSE RoundDiv(d[1] * w, Scale),
         y |-> IF "y" \in DOMAIN o THEN o.y ELSE RoundDiv(d[2] * h, Scale),
         angle |-> angle,
         speed |-> speed,
         newAngle |-> angle,
         newSpeed |-> speed]

\* the object addBoid pushes; id is the identity of the object
NewBoid(w, h, o, d, id) ==
    [id |-> id,
     x |-> IF "x" \in DOMAIN o THEN o.x ELSE RoundDiv(d[1] * w, Scale),
     y |-> IF "y" \in DOMAIN o THEN o.y ELSE RoundDiv(d[2] * h, Scale),
     angle |-> IF "angle" \in DOMAIN o THEN o.angle ELSE RoundDiv(d[3] * TwoPi, Scale),
     speed |-> IF "speed" \in DOMAIN o THEN o.speed ELSE d[4] + Scale \div 2,
     newAngle |-> 0,
     newSpeed |-> 0]

\* the state after new World({width, height, initialBoidCount})
Init ==
    \E wh \in Worlds, initialBoidCount \in 0 .. MaxBoids :
      \E ds \in [1 .. initialBoidCount -> BoidDraws] :
        /\ width = wh[1]
        /\ height = wh[2]
        /\ boids = [k \in 1 .. initialBoidCount |->
                       NewBoid(wh[1], wh[2], << >>, ds[k], k)]
        /\ pc = "idle"
        /\ idx = 0
        /\ ticks = 0
        /\ lastOp = "new"
        /\ pre = << >>
        /\ draws = << >>
        /\ moved = << >>
        /\ sep = << >>
        /\ options = << >>
        /\ query = NoQuery

\* addBoid(options)
AddBoid ==
    /\ pc = "idle"
    /\ Len(boids) < MaxBoids
    /\ \E o \in BoidOptions, d \in BoidDraws :
         /\ boids' = Append(boids, NewBoid(width, height, o, d, Len(boids) + 1))
         /\ options' = o
    /\ lastOp' = "addBoid"
    /\ pre' = << >>
    /\ draws' = << >>
    /\ moved' = << >>
    /\ sep' = << >>
    /\ query' = NoQuery
    /\ UNCHANGED << width, height, pc, idx, ticks >>

\* getNeighbors(target, radius), called on its own
GetNeighbors ==
    /\ pc = "idle"
    /\ \E t \in 1 .. Len(boids), radius \in QueryRadii :
         query' = [target |-> t, radius |-> radius,
                   result |-> getNeighbors(boids, t, radius)]
    /\ lastOp' = "getNeighbors"
    /\ UNCHANGED << width, height, boids, pc, idx, ticks, pre, draws, moved, sep,
                    options >>

\* update() is entered; with no boids both loops are empty and it returns
UpdateBegin ==
    /\ pc = "idle"
    /\ ticks < MaxTicks
    /\ pre' = boids
    /\ draws' = << >>
    /\ moved' = << >>
    /\ sep' = << >>
    /\ options' = << >>
    /\ query' = NoQuery
    /\ IF Len(boids) = 0
       THEN /\ ticks' = ticks + 1
            /\ lastOp' = "update"
            /\ UNCHANGED << pc, idx >>
       ELSE /\ pc' = "stage"
            /\ idx' = 1
            /\ UNCHANGED << ticks, lastOp >>
    /\ UNCHANGED << width, height, boids >>

\* one iteration of the first loop; after the last one the second loop starts
StageStep ==
    /\ pc = "stage"
    /\ \E d \in NoiseDraws :
         /\ boids' = StageBoid(boids, idx, d)
         /\ draws' = Append(draws, d)
    /\ sep' = Append(sep, Separation(boids, idx,
                                     getNeighbors(boids, idx, NeighborRadius * Scale)))
    /\ IF idx = Len(boids)
       THEN pc' = "commit" /\ idx' = 1
       ELSE pc' = pc /\ idx' = idx + 1
    /\ UNCHANGED << width, height, ticks, lastOp, pre, moved, options, query >>

\* one iteration of the second loop; after the last one update() returns
CommitStep ==
    /\ pc = "commit"
    /\ boids' = CommitBoid(boids, idx, width, height)
    /\ moved' = Append(moved, Integrate(boids[idx]))
    /\ IF idx = Len(boids)
       THEN pc' = "idle" /\ idx' = 0 /\ ticks' = ticks + 1 /\ lastOp' = "update"
       ELSE pc' = pc /\ idx' = idx + 1 /\ UNCHANGED << ticks, lastOp >>
    /\ UNCHANGED << width, height, pre, draws, sep, options, query >>

\* the World driven by addBoid and update
Next == AddBoid \/ UpdateBegin \/ StageStep \/ CommitStep

Spec == Init /\ [][Next]_vars

\* the World populated by addBoid and queried by getNeighbors, which reads
\* the array and changes nothing
NextQuery == AddBoid \/ GetNeighbors

SpecQuery == Init /\ [][NextQuery]_vars

\* ------------------------------------------------------------------------
\* Properties
\* ------------------------------------------------------------------------
\* update() has just returned
AfterUpdate == pc = "idle" /\ lastOp = "update"

InsidePlane(bd) == 0 <= bd.x /\ bd.x < width /\ 0 <= bd.y /\ bd.y < height

\* C1: when every agent was inside the plane as update() was called, every
\* agent has 0 <= x < width and 0 <= y < height when it returns, also when
\* the integrated position is exactly 0 or a multiple of the dimension.
C1_InsidePlaneAfterUpdate ==
    (AfterUpdate /\ \A i \in 1 .. Len(pre) : InsidePlane(pre[i]))
        => \A i \in 1 .. Len(boids) : InsidePlane(boids[i])

\* C2: when update() returns, every agent's speed is within [0.5, 2],
\* whatever its speed was before the call.
C2_SpeedClamped ==
    AfterUpdate =>
        \A i \in 1 .. Len(boids) :
            Scale \div 2 <= boids[i].speed /\ boids[i].speed <= 2 * Scale

\* an update() has clamped a speed that addBoid was given above the range,
\* and one it was given below the range
C2_Witness ==
    /\ AfterUpdate
    /\ \E i \in 1 .. Len(boids) :
           pre[i].speed > 2 * Scale /\ boids[i].speed = 2 * Scale
    /\ \E i \in 1 .. Len(boids) :
           pre[i].speed < Scale \div 2 /\ boids[i].speed >= Scale \div 2

\* C5: an agent whose integrated x is at least width ends the update() call
\* at that x modulo width.
C5_WrapIsModulo ==
    AfterUpdate =>
        \A i \in 1 .. Len(boids) :
            moved[i].x >= width => boids[i].x = moved[i].x % width

\* C3: getNeighbors(target, radius) returns, once each, exactly the agents
\* other than the target whose plain squared distance dx*dx + dy*dy to the
\* target is strictly less than radius*radius.
C3_NeighborsExact ==
    query.target # 0 =>
        LET t == query.target
            Expected == {i \in 1 .. Len(boids) :
                            /\ i # t
                            /\ (boids[i].x - boids[t].x) * (boids[i].x - boids[t].x)
                               + (boids[i].y - boids[t].y) * (boids[i].y - boids[t].y)
                               < query.radius * query.radius}
        IN  /\ {query.result[k] : k \in 1 .. Len(query.result)} = Expected
            /\ Len(query.result) = Cardinality(Expected)

\* a query whose radius is exactly the distance to another agent, which is
\* left out of the result
C3_Witness ==
    /\ query.target # 0
    /\ query.radius > 0
    /\ \E i \in 1 .. Len(boids) :
           /\ i # query.target
           /\ boids[i].y = boids[query.target].y
           /\ Abs(boids[i].x - boids[query.target].x) = query.radius
           /\ \A k \in 1 .. Len(query.result) : query.result[k] # i

\* the orders in which n agents can be visited
VisitOrders(n) == {f \in [1 .. n -> 1 .. n] : \A i, j \in 1 .. n : f[i] = f[j] => i = j}

RECURSIVE StageInOrder(_, _, _, _)
StageInOrder(bs, order, ds, k) ==
    IF k > Len(bs) THEN bs
    ELSE StageInOrder(StageBoid(bs, order[k], ds[order[k]]), order, ds, k + 1)

RECURSIVE CommitInOrder(_, _, _)
CommitInOrder(bs, order, k) ==
    IF k > Len(bs) THEN bs
    ELSE CommitInOrder(CommitBoid(bs, order[k], width, height), order, k + 1)

\* update() run on bs with the agents visited in the given order, agent i
\* receiving the noise draws ds[i]
UpdateInOrder(bs, order, ds) == CommitInOrder(StageInOrder(bs, order, ds, 1), order, 1)

Committed(bd) == << bd.x, bd.y, bd.angle, bd.speed >>

\* C4: while update() stages, no committed field differs from its value at
\* the call; each staged value is the one computed from the state at the
\* call; and the state at return is the same for every visiting order.
C4_TwoPhase ==
    /\ pc = "stage" =>
           \A i \in 1 .. Len(boids) : Committed(boids[i]) = Committed(pre[i])
    /\ (pc = "commit" \/ AfterUpdate) =>
           \A i \in 1 .. Len(boids) :
               LET staged == StageBoid(pre, i, draws[i])[i]
               IN  /\ boids[i].newAngle = staged.newAngle
                   /\ boids[i].newSpeed = staged.newSpeed
    /\ AfterUpdate =>
           \A order \in VisitOrders(Len(pre)) : UpdateInOrder(pre, order, draws) = boids

\* an update() of two neighbours in which the agent visited first changed
\* its speed and position, so that a later agent reading them would differ
C4_Witness ==
    /\ AfterUpdate
    /\ Len(boids) >= 2
    /\ getNeighbors(pre, 2, NeighborRadius * Scale) # << >>
    /\ boids[1].speed # pre[1].speed
    /\ boids[1].x # pre[1].x
    /\ boids[2].speed # pre[2].speed

\* a step of update()
UpdateStep == UpdateBegin \/ StageStep \/ CommitStep

\* C6: no step of update() changes width or height, or the number, the
\* identity or the order of the agents of the collection.
C6_UpdateKeepsCollection ==
    [][UpdateStep =>
          /\ width' = width
          /\ height' = height
          /\ Len(boids') = Len(boids)
          /\ \A i \in 1 .. Len(boids) : boids'[i].id = boids[i].id]_vars

\* two update() calls have returned on a collection of two agents, of
\* which one crossed an edge of the plane
C6_Witness ==
    /\ AfterUpdate
    /\ ticks >= 2
    /\ Len(boids) = 2
    /\ boids[1].id = 1
    /\ boids[2].id = 2
    /\ \E i \in 1 .. 2 : moved[i].x # boids[i].x

\* C7: addBoid(options) appends one agent and leaves the others, width and
\* height unchanged; the new agent holds the x, y, angle and speed of
\* options verbatim, each omitted one lying in its default range, and
\* newAngle = newSpeed = 0.
C7_AddBoidAppends ==
    [][AddBoid =>
          /\ width' = width
          /\ height' = height
          /\ Len(boids') = Len(boids) + 1
          /\ SubSeq(boids', 1, Len(boids)) = boids
          /\ \E new \in {boids'[Len(boids')]}, o \in {options'} :
               /\ \A i \in 1 .. Len(boids) : boids[i].id # new.id
               /\ IF "x" \in DOMAIN o THEN new.x = o.x
                  ELSE 0 <= new.x /\ new.x < width
               /\ IF "y" \in DOMAIN o THEN new.y = o.y
                  ELSE 0 <= new.y /\ new.y < height
               /\ IF "angle" \in DOMAIN o THEN new.angle = o.angle
                  ELSE 0 <= new.angle /\ new.angle < TwoPi
               /\ IF "speed" \in DOMAIN o THEN new.speed = o.speed
                  ELSE Scale \div 2 <= new.speed /\ new.speed < Scale + Scale \div 2
               /\ new.newAngle = 0
               /\ new.newSpeed = 0]_vars

\* addBoid has been called, after an update(), with a speed outside the
\* default range and the other fields omitted
C7_Witness ==
    /\ lastOp = "addBoid"
    /\ ticks >= 1
    /\ Len(boids) = 2
    /\ DOMAIN options = {"speed"}
    /\ boids[2].speed = options.speed
    /\ boids[2].speed > 2 * Scale
    /\ boids[2].angle # 0

\* C8: in a world of one agent getNeighbors returns the empty sequence, and
\* update() stages newAngle = atan2(sin(angle) + ny, cos(angle) + nx) and
\* newSpeed = clamp(speed + ns, 0.5, 2) for noise terms nx, ny, ns of
\* absolute value at most 0.01; a speed that starts within [0.5, 2] changes
\* by at most 0.01.
C8_SingleAgentNoiseOnly ==
    /\ Len(boids) = 1 => getNeighbors(boids, 1, NeighborRadius * Scale) = << >>
    /\ (AfterUpdate /\ Len(boids) = 1) =>
         \E nx \in {Hundredth(2 * draws[1][1] - Scale)},
            ny \in {Hundredth(2 * draws[1][2] - Scale)},
            ns \in {Hundredth(2 * draws[1][3] - Scale)} :
           /\ Abs(nx) <= 1 /\ Abs(ny) <= 1 /\ Abs(ns) <= 1
           /\ boids[1].newAngle =
                  Atan2(Sin(pre[1].angle) + ny, Cos(pre[1].angle) + nx)
           /\ boids[1].newSpeed =
                  (IF pre[1].speed + ns < Scale \div 2 THEN Scale \div 2
                   ELSE IF pre[1].speed + ns > 2 * Scale THEN 2 * Scale
                   ELSE pre[1].speed + ns)
           /\ (Scale \div 2 <= pre[1].speed /\ pre[1].speed <= 2 * Scale)
                  => Abs(boids[1].newSpeed - pre[1].speed) <= 1

\* a world of one agent was updated with a non-zero speed noise, and the
\* agent's speed moved by exactly that noise
C8_Witness ==
    /\ AfterUpdate
    /\ Len(boids) = 1
    /\ ticks >= 2
    /\ pre[1].angle # 0
    /\ Hundredth(2 * draws[1][3] - Scale) = 1
    /\ boids[1].newSpeed = pre[1].speed + 1

\* agents a and b are each other's only neighbour in the array bs
OnlyNeighbours(bs, a, b) ==
    /\ a # b
    /\ getNeighbors(bs, a, NeighborRadius * Scale) = << b >>
    /\ getNeighbors(bs, b, NeighborRadius * Scale) = << a >>

\* C9: for two agents that are each other's only neighbour, the separation
\* influence computed for one during a tick is 0.01*(a.x-b.x)/(d2/100+1),
\* 0.01*(a.y-b.y)/(d2/100+1), the exact negation of the other's, and the
\* denominator d2/100 + 1 is at least 1.
C9_SeparationSymmetric ==
    (pc = "commit" \/ AfterUpdate) =>
        \A a, b \in 1 .. Len(pre) :
            OnlyNeighbours(pre, a, b) =>
                \E dx \in {pre[a].x - pre[b].x}, dy \in {pre[a].y - pre[b].y} :
                  \E den \in {RoundDiv(RoundDiv(dx * dx + dy * dy, Scale), 100) + Scale} :
                    /\ den >= Scale
                    /\ sep[a].x = Hundredth(RoundDiv(dx * Scale, den))
                    /\ sep[a].y = Hundredth(RoundDiv(dy * Scale, den))
                    /\ sep[a].x = -sep[b].x
                    /\ sep[a].y = -sep[b].y

\* a tick in which two agents at different positions, each other's only
\* neighbour, pushed each other apart
C9_Witness ==
    /\ AfterUpdate
    /\ \E a, b \in 1 .. Len(pre) :
           /\ OnlyNeighbours(pre, a, b)
           /\ sep[a].x > 0
           /\ sep[b].x < 0

\* a tick in which two agents at the same position are each other's only
\* neighbour: the denominator is exactly 1 and the influence is zero
C9_WitnessSamePosition ==
    /\ AfterUpdate
    /\ \E a, b \in 1 .. Len(pre) :
           /\ OnlyNeighbours(pre, a, b)
           /\ pre[a].x = pre[b].x
           /\ pre[a].y = pre[b].y
           /\ sep[a] = [x |-> 0, y |-> 0]

\* C10: the second loop of update() runs only when every agent has been
\* staged in this call, so that the newSpeed = 0 addBoid wrote is never
\* committed; when update() returns every agent has angle = newAngle and
\* speed = newSpeed, and no speed is 0.
C10_PlaceholderNeverCommitted ==
    /\ pc = "commit" =>
           /\ Len(draws) = Len(boids)
           /\ \A i \in 1 .. Len(boids) : boids[i].newSpeed # 0
    /\ AfterUpdate =>
           \A i \in 1 .. Len(boids) :
               /\ boids[i].angle = boids[i].newAngle
               /\ boids[i].speed = boids[i].newSpeed
               /\ boids[i].speed # 0

\* an update() of an agent that was added after an earlier update() and
\* of an agent that the earlier update() had staged
C10_Witness ==
    /\ AfterUpdate
    /\ \E i, j \in 1 .. Len(pre) :
           /\ pre[i].newAngle = 0 /\ pre[i].newSpeed = 0
           /\ pre[i].angle # 0
           /\ boids[i].angle # 0
           /\ pre[j].newSpeed # 0

=============================================================================
